---------------------------- MODULE Spec2Model ----------------------------
(***************************************************************************)
(* State-machine model of the mission-control frontend:                    *)
(*   - AuthProvider            (src/unnamed/part_000)                      *)
(*   - LocalAuthLogin          (components/organisms/LocalAuthLogin.tsx)   *)
(*   - NewAgentPage            (app/agents/new/page.tsx)                   *)
(*   - EditAgentPage           (src/unnamed/part_001)                      *)
(*                                                                         *)
(* One behaviour follows one mounted component tree, named by `view`.      *)
(*                                                                         *)
(* Values.  A JavaScript string that the code trims or concatenates is a   *)
(* tuple of tokens: the token " " is one whitespace character, any other   *)
(* token is a run of non-whitespace characters.  Identifiers and messages  *)
(* the code only compares or displays are TLA+ strings.  JavaScript        *)
(* null/undefined is NullText among the tuples and NullStr among the       *)
(* strings.                                                                *)
(***************************************************************************)
EXTENDS Naturals, Sequences, FiniteSets, Bags, TLC

VARIABLES
    view,             \* which component tree this behaviour follows
    (* environment of AuthProvider *)
    localAuthMode,    \* isLocalAuthMode()
    publishableKey,   \* process.env.NEXT_PUBLIC_CLERK_PUBLISHABLE_KEY
    storedToken,      \* the token store read by getLocalAuthToken()
    rendered,         \* what AuthProvider returned at the last render
    reloads,          \* number of window.location.reload() calls so far
    (* LocalAuthLogin state *)
    token,            \* useState("")
    (* state shared in shape by LocalAuthLogin, NewAgentPage, EditAgentPage *)
    error,            \* useState<string | null>(null)
    (* useAuth(), useParams(), router *)
    mounted,          \* the page's first render and its effects have run
    isSignedIn,
    agentId,
    pushed,           \* argument of the router.push of a submit, or NoPush
    (* NewAgentPage / EditAgentPage state *)
    agent,
    name,
    boards,
    boardId,
    heartbeatEvery,
    heartbeatTarget,
    identityTemplate,
    soulTemplate,
    isLoading,
    (* requests issued by fetch and not yet settled *)
    net,
    (* history *)
    triggers,         \* runs of the load effect caused by a dependency change
    submits,          \* invocations of the page's handleSubmit
    edits,            \* user input events delivered to the page
    boardsOk,         \* boards responses handled successfully (capped)
    agentOk,          \* agent responses handled successfully (capped)
    userSelected,     \* the user picked a board in the selector
    last              \* the request last settled and how it settled

authVars == <<localAuthMode, publishableKey, storedToken, rendered, reloads,
              token>>
formVars == <<agent, name, boards, boardId, heartbeatEvery, heartbeatTarget,
              identityTemplate, soulTemplate, isLoading>>
envVars  == <<mounted, isSignedIn, agentId, pushed>>
histVars == <<triggers, submits, edits, boardsOk, agentOk, userSelected>>
vars == <<view, authVars, error, envVars, formVars, net, histVars, last>>

---------------------------------------------------------------------------
(* Bounds of the model *)

MaxReloads  == 2
MaxTriggers == 1
MaxSubmits  == 1
MaxEdits    == 2
MaxEditsEdit == 1
MaxLoadTriggers == 2
MaxLoadEdits == 1
MaxResubmits == 2
MaxRaceTriggers == 2

---------------------------------------------------------------------------
(* Values *)

NullStr  == "null"
NullText == <<"null">>

IsSpace(c) == c = " "

RECURSIVE TrimStart(_)
TrimStart(s) ==
    IF s = <<>> THEN <<>>
    ELSE IF IsSpace(Head(s)) THEN TrimStart(Tail(s))
    ELSE s

RECURSIVE TrimEnd(_)
TrimEnd(s) ==
    IF s = <<>> THEN <<>>
    ELSE IF IsSpace(s[Len(s)]) THEN TrimEnd(SubSeq(s, 1, Len(s) - 1))
    ELSE s

(* String.prototype.trim *)
Trim(s) == TrimEnd(TrimStart(s))

(* JavaScript truthiness of a string | null | undefined *)
Truthy(s) == s # NullText /\ s # <<>>
TruthyStr(s) == s # NullStr /\ s # ""

(* a || b on texts *)
OrElse(a, b) == IF Truthy(a) THEN a ELSE b

(* s?.trim() *)
OptTrim(s) == IF s = NullText THEN NullText ELSE Trim(s)

---------------------------------------------------------------------------
(* AuthProvider and LocalAuthLogin *)

TokenInputs == {<<>>, <<" ">>, <<" ", " ">>, <<"abc123">>, <<" ", "abc123", " ">>,
                <<"a", " ", "b">>, <<"a", " ", "b", " ">>}

KeyValues == {NullStr, "", "not-a-key", "pk_test_Y2xlcms", "pk_live_Y2xlcms"}

(* @/auth/clerkKey *)
IsLikelyValidClerkPublishableKey(key) ==
    key \in {"pk_test_Y2xlcms", "pk_live_Y2xlcms"}

(* @/auth/localAuth *)
IsLocalAuthMode == localAuthMode
GetLocalAuthToken(store) == store
SetLocalAuthToken(cleaned) == cleaned

AuthProvider_NoTokenCheck(mode, key, stored) ==
    IF mode THEN "children"
    ELSE IF ~IsLikelyValidClerkPublishableKey(key) THEN "children"
    ELSE "clerk"

AuthProvider_AlwaysWrap(mode, key, stored) ==
    IF mode
    THEN IF ~Truthy(GetLocalAuthToken(stored)) THEN "login" ELSE "children"
    ELSE "clerk"

AuthProvider_KeyInLocalMode(mode, key, stored) ==
    IF mode /\ ~Truthy(GetLocalAuthToken(stored)) THEN "login"
    ELSE IF ~IsLikelyValidClerkPublishableKey(key) THEN "children"
    ELSE "clerk"

(* What AuthProvider returns: the login view, the children as they are, or *)
(* the children inside ClerkProvider.                                      *)
AuthProvider(mode, key, stored) ==
    IF mode
    THEN IF ~Truthy(GetLocalAuthToken(stored)) THEN "login" ELSE "children"
    ELSE IF ~IsLikelyValidClerkPublishableKey(key) THEN "children"
    ELSE "clerk"

LoginRequiredMessage == "Bearer token is required."

AuthInit ==
    /\ localAuthMode \in BOOLEAN
    /\ publishableKey \in KeyValues
    /\ storedToken \in {NullText, <<"abc123">>}
    /\ rendered = AuthProvider(localAuthMode, publishableKey, storedToken)
    /\ reloads = 0
    /\ token = <<>>

(* The page is loaded again: every component is constructed afresh and    *)
(* AuthProvider is evaluated against the token store as it is now.         *)
PageLoad(stored) ==
    /\ token' = <<>>
    /\ error' = NullStr
    /\ rendered' = AuthProvider(localAuthMode, publishableKey, stored)
    /\ reloads' = reloads + 1

(* onChange of the token input *)
SetToken(v) ==
    /\ view = "auth"
    /\ rendered = "login"
    /\ token' = v
    /\ edits' = edits + 1
    /\ UNCHANGED <<last, view, localAuthMode, publishableKey, storedToken, rendered,
                   reloads, error, envVars, formVars, net, triggers, submits,
                   boardsOk, agentOk, userSelected>>

LoginHandleSubmit_StoreRaw ==
    /\ view = "auth"
    /\ rendered = "login"
    /\ submits' = submits + 1
    /\ LET cleaned == Trim(token) IN
       IF ~Truthy(cleaned)
       THEN /\ error' = LoginRequiredMessage
            /\ UNCHANGED <<storedToken, token, rendered, reloads>>
       ELSE /\ storedToken' = SetLocalAuthToken(token)
            /\ PageLoad(storedToken')
    /\ UNCHANGED <<last, view, localAuthMode, publishableKey, envVars, formVars, net,
                   triggers, edits, boardsOk, agentOk, userSelected>>

LoginHandleSubmit_NoTrim ==
    /\ view = "auth"
    /\ rendered = "login"
    /\ submits' = submits + 1
    /\ LET cleaned == token IN
       IF ~Truthy(cleaned)
       THEN /\ error' = LoginRequiredMessage
            /\ UNCHANGED <<storedToken, token, rendered, reloads>>
       ELSE /\ storedToken' = SetLocalAuthToken(cleaned)
            /\ PageLoad(storedToken')
    /\ UNCHANGED <<last, view, localAuthMode, publishableKey, envVars, formVars, net,
                   triggers, edits, boardsOk, agentOk, userSelected>>

(* LocalAuthLogin.handleSubmit with the reload ahead of the write. *)
LoginHandleSubmit_ReloadBeforeStore ==
    /\ view = "auth"
    /\ rendered = "login"
    /\ submits' = submits + 1
    /\ LET cleaned == Trim(token) IN
       IF ~Truthy(cleaned)
       THEN /\ error' = LoginRequiredMessage
            /\ UNCHANGED <<storedToken, token, rendered, reloads>>
       ELSE /\ PageLoad(storedToken)
            /\ storedToken' = SetLocalAuthToken(cleaned)
    /\ UNCHANGED <<last, view, localAuthMode, publishableKey, envVars, formVars, net,
                   triggers, edits, boardsOk, agentOk, userSelected>>

(* LocalAuthLogin.handleSubmit; window.location.reload() constructs the   *)
(* page afresh, so the reload is the last part of the accepting branch.    *)
LoginHandleSubmit ==
    /\ view = "auth"
    /\ rendered = "login"
    /\ submits' = submits + 1
    /\ LET cleaned == Trim(token) IN
       IF ~Truthy(cleaned)
       THEN /\ error' = LoginRequiredMessage
            /\ UNCHANGED <<storedToken, token, rendered, reloads>>
       ELSE /\ storedToken' = SetLocalAuthToken(cleaned)
            /\ PageLoad(storedToken')
    /\ UNCHANGED <<last, view, localAuthMode, publishableKey, envVars, formVars, net,
                   triggers, edits, boardsOk, agentOk, userSelected>>

(* The user reloads the page. *)
Reload ==
    /\ view = "auth"
    /\ PageLoad(storedToken)
    /\ UNCHANGED <<last, view, localAuthMode, publishableKey, storedToken, envVars,
                   formVars, net, histVars>>

---------------------------------------------------------------------------
(* NewAgentPage and EditAgentPage: values *)

(* @/lib/agent-templates *)
DEFAULT_IDENTITY_TEMPLATE == <<"IDENTITY.md">>
DEFAULT_SOUL_TEMPLATE == <<"SOUL.md">>

DefaultHeartbeatEvery == <<"10m">>

HEARTBEAT_TARGET_OPTIONS ==
    << [value |-> "none", label |-> "None (no outbound message)"],
       [value |-> "last", label |-> "Last channel"] >>

Board(id) == [id |-> id, name |-> <<"Board", " ", id>>, slug |-> id]

getBoardOptions(bs) ==
    [i \in 1..Len(bs) |-> [value |-> bs[i].id, label |-> bs[i].name]]

(* Bodies the server answers GET /api/v1/boards with *)
BoardLists == { <<>>, <<Board("b1"), Board("b2")>>, <<Board("b2")>> }
BoardListsCore == { <<>>, <<Board("b1"), Board("b2")>> }

(* Bodies the server answers GET /api/v1/agents/{id} with *)
HeartbeatConfigs ==
    { [null |-> TRUE,  every |-> NullText, target |-> NullStr],
      [null |-> FALSE, every |-> NullText, target |-> NullStr],
      [null |-> FALSE, every |-> <<>>,     target |-> ""],
      [null |-> FALSE, every |-> <<"30m">>, target |-> "last"],
      [null |-> FALSE, every |-> <<"2h">>, target |-> "none"] }

AgentRecords ==
    [ id : {"a1"},
      name : {<<"Deploy", " ", "bot">>},
      board_id : {NullStr, "", "b2"},
      heartbeat_config : HeartbeatConfigs,
      identity_template : {NullText, <<" ">>, <<" ", "id", " ">>},
      soul_template : {<<>>, <<"soul">>} ]

(* The two ends of AgentRecords: every optional field set, and none set *)
AgentRecordsCore ==
    { [ id |-> "a1", name |-> <<"Deploy", " ", "bot">>, board_id |-> "b2",
        heartbeat_config |-> [null |-> FALSE, every |-> <<"30m">>, target |-> "last"],
        identity_template |-> <<" ", "id", " ">>, soul_template |-> <<"soul">> ],
      [ id |-> "a1", name |-> <<"Deploy", " ", "bot">>, board_id |-> NullStr,
        heartbeat_config |-> [null |-> TRUE, every |-> NullText, target |-> NullStr],
        identity_template |-> NullText, soul_template |-> <<>> ] }

NoAgent == [null |-> TRUE]

(* useAuth().getToken() resolves to the session token or to null *)
GetTokenResults == {NullText, <<"jwt">>}

(* What a user can type into a text field *)
NameInputs == {<<" ">>, <<" ", "Deploy", " ", "bot", " ">>}
EveryInputs == {<<" ">>, <<" ", "30m", " ">>}
TemplateInputs == {<<" ">>}

AgentIds == {NullStr, "a1"}

(* Values fetch or response.json() rejects with *)
FetchRejections ==
    { [isError |-> TRUE,  message |-> "Failed to fetch"] }
JsonRejections ==
    { [isError |-> TRUE, message |-> "Unexpected end of JSON input"] }

(* Response status codes; response.ok is status in 200..299 *)
Statuses == {200, 404, 500}
ResponseOk(status) == status >= 200 /\ status <= 299

NoPush == <<>>
NoBody == [null |-> TRUE]

AuthHeader_Unconditional(tok) == <<"Bearer", " ">> \o tok

(* Authorization: token ? `Bearer ${token}` : "" *)
AuthHeader(tok) == IF Truthy(tok) THEN <<"Bearer", " ">> \o tok ELSE <<>>

(* A fetch in flight: the endpoint, the headers and body it was issued    *)
(* with, and what the issuing closure captured (cap: NewAgentPage's        *)
(* loadBoards reads the boardId of the render that started it).            *)
Request(kind, id, tok, body, cap) ==
    [kind |-> kind, id |-> id, tok |-> tok, auth |-> AuthHeader(tok),
     body |-> body, cap |-> cap]

Send(req) == net (+) SetToBag({req})
Settle(req) == net (-) SetToBag({req})
InFlight == BagToSet(net)

CatchMessage_IgnoreMessage(err) == "Something went wrong."

(* err instanceof Error ? err.message : "Something went wrong." *)
CatchMessage(err) ==
    IF err.isError THEN err.message ELSE "Something went wrong."

(* How a fetch settles: it rejects, or it resolves to a response with a   *)
(* status and a body.  json says whether the body parses: response.json()  *)
(* rejects when it does not.  data is the parsed body; none stands in for  *)
(* it where the handler never gets one.                                    *)
NoRejection == [isError |-> FALSE, message |-> ""]
Rejected(e, none) ==
    [type |-> "rejected", status |-> 0, err |-> e, json |-> FALSE, data |-> none]
Resolved(s, j, d) ==
    [type |-> "resolved", status |-> s, err |-> NoRejection, json |-> j, data |-> d]

Outcomes(bodies, none) ==
    {Rejected(e, none) : e \in FetchRejections}
    \cup {Resolved(s, FALSE, none) : s \in Statuses}
    \cup {Resolved(s, TRUE, d) : s \in {c \in Statuses : ResponseOk(c)}, d \in bodies}

BoardsOutcomes(lists) == Outcomes(lists, <<>>)
AgentOutcomes(records) == Outcomes(records, NoAgent)
CreateOutcomes == Outcomes({[id |-> "a9"]}, [id |-> NullStr])
UpdateOutcomes == Outcomes({NoBody}, NoBody)

(* Whether the try block of a handler throws on outcome o, and what it    *)
(* throws: the rejection of fetch, new Error(msg) on a response that is    *)
(* not ok, or the rejection of response.json() when the handler reads the  *)
(* body.                                                                   *)
Throws(o, readsBody) ==
    \/ o.type = "rejected"
    \/ ~ResponseOk(o.status)
    \/ (readsBody /\ ~o.json)

Thrown(o, msg) ==
    IF o.type = "rejected" THEN o.err
    ELSE IF ~ResponseOk(o.status) THEN [isError |-> TRUE, message |-> msg]
    ELSE CHOOSE e \in JsonRejections : TRUE

---------------------------------------------------------------------------
(* NewAgentPage and EditAgentPage: state after construction *)

FormInit ==
    /\ mounted = FALSE
    /\ pushed = NoPush
    /\ agent = NoAgent
    /\ name = <<>>
    /\ boards = <<>>
    /\ boardId = ""
    /\ heartbeatEvery = DefaultHeartbeatEvery
    /\ heartbeatTarget = "none"
    /\ identityTemplate = DEFAULT_IDENTITY_TEMPLATE
    /\ soulTemplate = DEFAULT_SOUL_TEMPLATE
    /\ isLoading = FALSE
    /\ net = EmptyBag

NoOutcome == [kind |-> "none", how |-> "none"]

(* What the history keeps of a settled request: its kind, and whether     *)
(* fetch rejected, the response was not ok, its body did not parse, or it  *)
(* was ok.                                                                 *)
Seen(req, o) ==
    [kind |-> req.kind,
     how |-> IF o.type = "rejected" THEN "rejected"
             ELSE IF ~ResponseOk(o.status) THEN "notOk"
             ELSE IF ~o.json THEN "badBody"
             ELSE "ok"]

HistInit ==
    /\ last = NoOutcome
    /\ triggers = 0
    /\ submits = 0
    /\ edits = 0
    /\ boardsOk = 0
    /\ agentOk = 0
    /\ userSelected = FALSE

Init ==
    /\ view \in {"auth", "new", "edit"}
    /\ error = NullStr
    /\ FormInit
    /\ HistInit
    /\ IF view = "auth"
       THEN AuthInit /\ agentId = NullStr /\ isSignedIn = FALSE
       ELSE /\ isSignedIn \in BOOLEAN
            /\ localAuthMode = FALSE
            /\ publishableKey = "pk_test_Y2xlcms"
            /\ storedToken = NullText
            /\ rendered = AuthProvider(localAuthMode, publishableKey, storedToken)
            /\ reloads = 0
            /\ token = <<>>
            /\ agentId \in (IF view = "edit" THEN AgentIds ELSE {NullStr})

(* The page's form is on screen and the router has not left the page *)
OnPage(v) == view = v /\ mounted /\ pushed = NoPush

---------------------------------------------------------------------------
(* NewAgentPage *)

(* loadBoards up to the point where its fetch is in flight: the requests  *)
(* it adds to the network.  cap is the boardId of the render whose effect  *)
(* called it.                                                              *)
NewLoadBoards(signedIn, tok, cap) ==
    IF ~signedIn THEN EmptyBag
    ELSE SetToBag({Request("boards", NullStr, tok, NoBody, cap)})

(* useEffect(() => { loadBoards(); }, [isSignedIn]) after the first       *)
(* render.                                                                 *)
NewMount(tok) ==
    /\ view = "new" /\ ~mounted
    /\ mounted' = TRUE
    /\ net' = net (+) NewLoadBoards(isSignedIn, tok, boardId)
    /\ UNCHANGED <<last, view, authVars, error, isSignedIn, agentId, pushed,
                   formVars, histVars>>

(* The same effect after a render in which the signed-in flag changed *)
NewAuthChange(tok) ==
    /\ OnPage("new")
    /\ triggers' = triggers + 1
    /\ isSignedIn' = ~isSignedIn
    /\ net' = net (+) NewLoadBoards(isSignedIn', tok, boardId)
    /\ UNCHANGED <<last, view, authVars, error, mounted, agentId, pushed, formVars, submits,
                   edits, boardsOk, agentOk, userSelected>>

NewBoardsDone_Retry(req, o) ==
    /\ OnPage("new")
    /\ req \in InFlight /\ req.kind = "boards"
    /\ IF Throws(o, TRUE)
       THEN /\ error' = CatchMessage(Thrown(o, "Unable to load boards."))
            /\ net' = Settle(req) (+) NewLoadBoards(isSignedIn, <<"jwt">>, boardId)
            /\ UNCHANGED <<boards, boardId, boardsOk>>
       ELSE /\ boards' = o.data
            /\ net' = Settle(req)
            /\ boardId' = IF ~TruthyStr(req.cap) /\ Len(o.data) > 0
                          THEN o.data[1].id ELSE boardId
            /\ boardsOk' = boardsOk + 1
            /\ UNCHANGED error
    /\ last' = Seen(req, o)
    /\ UNCHANGED <<view, authVars, envVars, agent, name, heartbeatEvery,
                   heartbeatTarget, identityTemplate, soulTemplate, isLoading,
                   triggers, submits, edits, agentOk, userSelected>>

(* The rest of loadBoards, run when its fetch settles with outcome o *)
NewBoardsDone(req, o) ==
    /\ OnPage("new")
    /\ req \in InFlight /\ req.kind = "boards"
    /\ net' = Settle(req)
    /\ IF Throws(o, TRUE)
       THEN /\ error' = CatchMessage(Thrown(o, "Unable to load boards."))
            /\ UNCHANGED <<boards, boardId, boardsOk>>
       ELSE /\ boards' = o.data
            /\ boardId' = IF ~TruthyStr(req.cap) /\ Len(o.data) > 0
                          THEN o.data[1].id ELSE boardId
            /\ boardsOk' = boardsOk + 1
            /\ UNCHANGED error
    /\ last' = Seen(req, o)
    /\ UNCHANGED <<view, authVars, envVars, agent, name, heartbeatEvery,
                   heartbeatTarget, identityTemplate, soulTemplate, isLoading,
                   triggers, submits, edits, agentOk, userSelected>>

SubmitBody_NoDefault(trimmed) ==
    [ name |-> trimmed,
      board_id |-> boardId,
      heartbeat_config |->
          [every |-> Trim(heartbeatEvery), target |-> heartbeatTarget],
      identity_template |-> OrElse(Trim(identityTemplate), NullText),
      soul_template |-> OrElse(Trim(soulTemplate), NullText) ]

(* The JSON body both pages send *)
SubmitBody(trimmed) ==
    [ name |-> trimmed,
      board_id |-> boardId,
      heartbeat_config |->
          [every |-> OrElse(Trim(heartbeatEvery), DefaultHeartbeatEvery),
           target |-> heartbeatTarget],
      identity_template |-> OrElse(Trim(identityTemplate), NullText),
      soul_template |-> OrElse(Trim(soulTemplate), NullText) ]

NewHandleSubmit_NoNameCheck(tok) ==
    /\ OnPage("new")
    /\ submits' = submits + 1
    /\ LET trimmed == Trim(name) IN
       IF ~isSignedIn
       THEN UNCHANGED <<error, isLoading, net>>
       ELSE IF ~TruthyStr(boardId)
       THEN /\ error' = "Select a board before creating an agent."
            /\ UNCHANGED <<isLoading, net>>
       ELSE /\ isLoading' = TRUE
            /\ error' = NullStr
            /\ net' = Send(Request("create", NullStr, tok, SubmitBody(trimmed), ""))
    /\ UNCHANGED <<last, view, authVars, envVars, agent, name, boards, boardId,
                   heartbeatEvery, heartbeatTarget, identityTemplate,
                   soulTemplate, triggers, edits, boardsOk, agentOk,
                   userSelected>>

NewHandleSubmit_LoadingGuard(tok) ==
    /\ OnPage("new")
    /\ submits' = submits + 1
    /\ LET trimmed == Trim(name) IN
       IF ~isSignedIn \/ isLoading
       THEN UNCHANGED <<error, isLoading, net>>
       ELSE IF ~Truthy(trimmed)
       THEN /\ error' = "Agent name is required."
            /\ UNCHANGED <<isLoading, net>>
       ELSE IF ~TruthyStr(boardId)
       THEN /\ error' = "Select a board before creating an agent."
            /\ UNCHANGED <<isLoading, net>>
       ELSE /\ isLoading' = TRUE
            /\ error' = NullStr
            /\ net' = Send(Request("create", NullStr, tok, SubmitBody(trimmed), ""))
    /\ UNCHANGED <<last, view, authVars, envVars, agent, name, boards, boardId,
                   heartbeatEvery, heartbeatTarget, identityTemplate,
                   soulTemplate, triggers, edits, boardsOk, agentOk,
                   userSelected>>

(* handleSubmit with setIsLoading(true) ahead of the validation *)
NewHandleSubmit_LoadingBeforeValidation(tok) ==
    /\ OnPage("new")
    /\ submits' = submits + 1
    /\ LET trimmed == Trim(name) IN
       IF ~isSignedIn
       THEN UNCHANGED <<error, isLoading, net>>
       ELSE IF ~Truthy(trimmed)
       THEN /\ error' = "Agent name is required."
            /\ isLoading' = TRUE
            /\ UNCHANGED net
       ELSE IF ~TruthyStr(boardId)
       THEN /\ error' = "Select a board before creating an agent."
            /\ isLoading' = TRUE
            /\ UNCHANGED net
       ELSE /\ isLoading' = TRUE
            /\ error' = NullStr
            /\ net' = Send(Request("create", NullStr, tok, SubmitBody(trimmed), ""))
    /\ UNCHANGED <<last, view, authVars, envVars, agent, name, boards, boardId,
                   heartbeatEvery, heartbeatTarget, identityTemplate,
                   soulTemplate, triggers, edits, boardsOk, agentOk,
                   userSelected>>

(* handleSubmit up to the point where its fetch is in flight *)
NewHandleSubmit(tok) ==
    /\ OnPage("new")
    /\ submits' = submits + 1
    /\ LET trimmed == Trim(name) IN
       IF ~isSignedIn
       THEN UNCHANGED <<error, isLoading, net>>
       ELSE IF ~Truthy(trimmed)
       THEN /\ error' = "Agent name is required."
            /\ UNCHANGED <<isLoading, net>>
       ELSE IF ~TruthyStr(boardId)
       THEN /\ error' = "Select a board before creating an agent."
            /\ UNCHANGED <<isLoading, net>>
       ELSE /\ isLoading' = TRUE
            /\ error' = NullStr
            /\ net' = Send(Request("create", NullStr, tok, SubmitBody(trimmed), ""))
    /\ UNCHANGED <<last, view, authVars, envVars, agent, name, boards, boardId,
                   heartbeatEvery, heartbeatTarget, identityTemplate,
                   soulTemplate, triggers, edits, boardsOk, agentOk,
                   userSelected>>

NewSubmitDone_NoFinally(req, o) ==
    /\ OnPage("new")
    /\ req \in InFlight /\ req.kind = "create"
    /\ net' = Settle(req)
    /\ IF Throws(o, TRUE)
       THEN /\ error' = CatchMessage(Thrown(o, "Unable to create agent."))
            /\ UNCHANGED <<pushed, isLoading>>
       ELSE /\ pushed' = <<"/agents/", o.data.id>>
            /\ isLoading' = FALSE
            /\ UNCHANGED error
    /\ last' = Seen(req, o)
    /\ UNCHANGED <<view, authVars, mounted, isSignedIn, agentId, agent, name, boards,
                   boardId, heartbeatEvery, heartbeatTarget, identityTemplate,
                   soulTemplate, histVars>>

(* The rest of handleSubmit, run when its fetch settles with outcome o *)
NewSubmitDone(req, o) ==
    /\ OnPage("new")
    /\ req \in InFlight /\ req.kind = "create"
    /\ net' = Settle(req)
    /\ IF Throws(o, TRUE)
       THEN /\ error' = CatchMessage(Thrown(o, "Unable to create agent."))
            /\ UNCHANGED pushed
       ELSE /\ pushed' = <<"/agents/", o.data.id>>
            /\ UNCHANGED error
    /\ isLoading' = FALSE
    /\ last' = Seen(req, o)
    /\ UNCHANGED <<view, authVars, mounted, isSignedIn, agentId, agent, name, boards,
                   boardId, heartbeatEvery, heartbeatTarget, identityTemplate,
                   soulTemplate, histVars>>

---------------------------------------------------------------------------
(* EditAgentPage *)

EditLoadBoards(signedIn, tok) ==
    IF ~signedIn THEN EmptyBag
    ELSE SetToBag({Request("boards", NullStr, tok, NoBody, "")})

EditLoadAgentRuns_NoIdCheck(signedIn, aid) == signedIn

(* Whether loadAgent passes its guard, and the request it then issues *)
EditLoadAgentRuns(signedIn, aid) == signedIn /\ TruthyStr(aid)

EditLoadAgent(signedIn, aid, tok) ==
    IF ~EditLoadAgentRuns(signedIn, aid) THEN EmptyBag
    ELSE SetToBag({Request("agent", aid, tok, NoBody, "")})

(* agent?.board_id *)
AgentBoardId(a) == IF a = NoAgent THEN NullStr ELSE a.board_id

BoardDefault_Override(a, bs, bid) ==
    IF TruthyStr(AgentBoardId(a)) /\ ~TruthyStr(bid) THEN AgentBoardId(a)
    ELSE IF Len(bs) > 0 THEN bs[1].id
    ELSE bid

(* The second effect, run after every render in which agent, boards or    *)
(* boardId changed: the boardId it leaves.                                 *)
BoardDefault(a, bs, bid) ==
    IF TruthyStr(bid) THEN bid
    ELSE IF TruthyStr(AgentBoardId(a)) THEN AgentBoardId(a)
    ELSE IF Len(bs) > 0 THEN bs[1].id
    ELSE bid

(* useEffect(() => { loadBoards(); loadAgent(); }, [isSignedIn, agentId]) *)
(* after the first render and after every change of the signed-in flag or  *)
(* of the agentId route parameter.                                         *)
EditLoadEffect(signedIn, aid, tok1, tok2) ==
    /\ net' = (net (+) EditLoadBoards(signedIn, tok1))
                   (+) EditLoadAgent(signedIn, aid, tok2)
    /\ IF EditLoadAgentRuns(signedIn, aid)
       THEN isLoading' = TRUE /\ error' = NullStr
       ELSE UNCHANGED <<isLoading, error>>

EditMount(tok1, tok2) ==
    /\ view = "edit" /\ ~mounted
    /\ mounted' = TRUE
    /\ EditLoadEffect(isSignedIn, agentId, tok1, tok2)
    /\ UNCHANGED <<last, view, authVars, isSignedIn, agentId, pushed, agent,
                   name, boards, boardId, heartbeatEvery, heartbeatTarget,
                   identityTemplate, soulTemplate, histVars>>

EditAuthChange(tok1, tok2) ==
    /\ OnPage("edit")
    /\ triggers' = triggers + 1
    /\ isSignedIn' = ~isSignedIn
    /\ EditLoadEffect(isSignedIn', agentId, tok1, tok2)
    /\ UNCHANGED <<last, view, authVars, mounted, agentId, pushed, agent, name, boards,
                   boardId, heartbeatEvery, heartbeatTarget, identityTemplate,
                   soulTemplate, submits, edits, boardsOk, agentOk,
                   userSelected>>

EditParamsChange(aid, tok1, tok2) ==
    /\ OnPage("edit")
    /\ triggers' = triggers + 1
    /\ aid # agentId
    /\ agentId' = aid
    /\ EditLoadEffect(isSignedIn, agentId', tok1, tok2)
    /\ UNCHANGED <<last, view, authVars, mounted, isSignedIn, pushed, agent, name, boards,
                   boardId, heartbeatEvery, heartbeatTarget, identityTemplate,
                   soulTemplate, submits, edits, boardsOk, agentOk,
                   userSelected>>

EditBoardsDone_KeepBoards(req, o) ==
    /\ OnPage("edit")
    /\ req \in InFlight /\ req.kind = "boards"
    /\ net' = Settle(req)
    /\ IF Throws(o, TRUE)
       THEN /\ error' = CatchMessage(Thrown(o, "Unable to load boards."))
            /\ UNCHANGED <<boards, boardId, boardsOk>>
       ELSE /\ boards' = (IF agent = NoAgent THEN o.data ELSE boards)
            /\ boardId' = BoardDefault(agent, boards', boardId)
            /\ boardsOk' = boardsOk + 1
            /\ UNCHANGED error
    /\ last' = Seen(req, o)
    /\ UNCHANGED <<view, authVars, envVars, agent, name, heartbeatEvery,
                   heartbeatTarget, identityTemplate, soulTemplate, isLoading,
                   triggers, submits, edits, agentOk, userSelected>>

(* The rest of loadBoards, then the board-default effect *)
EditBoardsDone(req, o) ==
    /\ OnPage("edit")
    /\ req \in InFlight /\ req.kind = "boards"
    /\ net' = Settle(req)
    /\ IF Throws(o, TRUE)
       THEN /\ error' = CatchMessage(Thrown(o, "Unable to load boards."))
            /\ UNCHANGED <<boards, boardId, boardsOk>>
       ELSE /\ boards' = o.data
            /\ boardId' = BoardDefault(agent, boards', boardId)
            /\ boardsOk' = boardsOk + 1
            /\ UNCHANGED error
    /\ last' = Seen(req, o)
    /\ UNCHANGED <<view, authVars, envVars, agent, name, heartbeatEvery,
                   heartbeatTarget, identityTemplate, soulTemplate, isLoading,
                   triggers, submits, edits, agentOk, userSelected>>

(* data.heartbeat_config?.every and ?.target *)
ConfigEvery(data) ==
    IF data.heartbeat_config.null THEN NullText ELSE data.heartbeat_config.every
ConfigTarget(data) ==
    IF data.heartbeat_config.null THEN NullStr ELSE data.heartbeat_config.target

SeedTemplate_NoFallback(value, fallback) == OptTrim(value)

(* The template a field is seeded with: value?.trim() || fallback *)
SeedTemplate(value, fallback) == OrElse(OptTrim(value), fallback)

(* The rest of loadAgent, then the board-default effect *)
EditAgentDone(req, o) ==
    /\ OnPage("edit")
    /\ req \in InFlight /\ req.kind = "agent"
    /\ net' = Settle(req)
    /\ IF Throws(o, TRUE)
       THEN /\ error' = CatchMessage(Thrown(o, "Unable to load agent."))
            /\ UNCHANGED <<agent, name, boardId, heartbeatEvery,
                           heartbeatTarget, identityTemplate, soulTemplate,
                           agentOk>>
       ELSE LET data == o.data IN
            /\ agent' = data
            /\ name' = data.name
            /\ boardId' = BoardDefault(agent', boards,
                              IF TruthyStr(data.board_id) THEN data.board_id
                              ELSE boardId)
            /\ heartbeatEvery' = IF Truthy(ConfigEvery(data))
                                 THEN ConfigEvery(data) ELSE heartbeatEvery
            /\ heartbeatTarget' = IF TruthyStr(ConfigTarget(data))
                                  THEN ConfigTarget(data) ELSE heartbeatTarget
            /\ identityTemplate' = SeedTemplate(data.identity_template,
                                                DEFAULT_IDENTITY_TEMPLATE)
            /\ soulTemplate' = SeedTemplate(data.soul_template,
                                            DEFAULT_SOUL_TEMPLATE)
            /\ agentOk' = agentOk + 1
            /\ UNCHANGED error
    /\ isLoading' = FALSE
    /\ last' = Seen(req, o)
    /\ UNCHANGED <<view, authVars, envVars, boards, triggers, submits, edits,
                   boardsOk, userSelected>>

EditHandleSubmit(tok) ==
    /\ OnPage("edit")
    /\ submits' = submits + 1
    /\ LET trimmed == Trim(name) IN
       IF ~isSignedIn \/ ~TruthyStr(agentId)
       THEN UNCHANGED <<error, isLoading, net>>
       ELSE IF ~Truthy(trimmed)
       THEN /\ error' = "Agent name is required."
            /\ UNCHANGED <<isLoading, net>>
       ELSE IF ~TruthyStr(boardId)
       THEN /\ error' = "Select a board before saving."
            /\ UNCHANGED <<isLoading, net>>
       ELSE /\ isLoading' = TRUE
            /\ error' = NullStr
            /\ net' = Send(Request("update", agentId, tok, SubmitBody(trimmed), ""))
    /\ UNCHANGED <<last, view, authVars, envVars, agent, name, boards, boardId,
                   heartbeatEvery, heartbeatTarget, identityTemplate,
                   soulTemplate, triggers, edits, boardsOk, agentOk,
                   userSelected>>

EditSubmitDone(req, o) ==
    /\ OnPage("edit")
    /\ req \in InFlight /\ req.kind = "update"
    /\ net' = Settle(req)
    /\ IF Throws(o, FALSE)
       THEN /\ error' = CatchMessage(Thrown(o, "Unable to update agent."))
            /\ UNCHANGED pushed
       ELSE /\ pushed' = <<"/agents/", req.id>>
            /\ UNCHANGED error
    /\ isLoading' = FALSE
    /\ last' = Seen(req, o)
    /\ UNCHANGED <<view, authVars, mounted, isSignedIn, agentId, agent, name, boards,
                   boardId, heartbeatEvery, heartbeatTarget, identityTemplate,
                   soulTemplate, histVars>>

---------------------------------------------------------------------------
(* The controls of both forms.  The form is rendered inside <SignedIn>;   *)
(* the text inputs and the target selector carry disabled={isLoading}, the *)
(* board selector disabled={boards.length === 0}.                          *)

(* <Button type="submit" disabled={isLoading}> *)
SubmitDisabled == isLoading

FormShown == view \in {"new", "edit"} /\ mounted /\ pushed = NoPush /\ isSignedIn

UserEdit ==
    /\ FormShown
    /\ edits' = edits + 1

SetName(v) ==
    /\ UserEdit /\ ~isLoading
    /\ name' = v
    /\ UNCHANGED <<last, view, authVars, error, envVars, agent, boards, boardId,
                   heartbeatEvery, heartbeatTarget, identityTemplate,
                   soulTemplate, isLoading, net, triggers, submits, boardsOk,
                   agentOk, userSelected>>

SetHeartbeatEvery(v) ==
    /\ UserEdit /\ ~isLoading
    /\ heartbeatEvery' = v
    /\ UNCHANGED <<last, view, authVars, error, envVars, agent, name, boards, boardId,
                   heartbeatTarget, identityTemplate, soulTemplate, isLoading,
                   net, triggers, submits, boardsOk, agentOk, userSelected>>

SetHeartbeatTarget(v) ==
    /\ UserEdit /\ ~isLoading
    /\ heartbeatTarget' = v
    /\ UNCHANGED <<last, view, authVars, error, envVars, agent, name, boards, boardId,
                   heartbeatEvery, identityTemplate, soulTemplate, isLoading,
                   net, triggers, submits, boardsOk, agentOk, userSelected>>

SetIdentityTemplate(v) ==
    /\ UserEdit /\ ~isLoading
    /\ identityTemplate' = v
    /\ UNCHANGED <<last, view, authVars, error, envVars, agent, name, boards, boardId,
                   heartbeatEvery, heartbeatTarget, soulTemplate, isLoading,
                   net, triggers, submits, boardsOk, agentOk, userSelected>>

SetSoulTemplate(v) ==
    /\ UserEdit /\ ~isLoading
    /\ soulTemplate' = v
    /\ UNCHANGED <<last, view, authVars, error, envVars, agent, name, boards, boardId,
                   heartbeatEvery, heartbeatTarget, identityTemplate, isLoading,
                   net, triggers, submits, boardsOk, agentOk, userSelected>>

(* onValueChange of the board selector: one of the options it offers.  In *)
(* EditAgentPage the board-default effect runs after it and finds boardId  *)
(* set.                                                                    *)
SetBoardId(i) ==
    /\ UserEdit
    /\ i \in 1..Len(boards)
    /\ boardId' = IF view = "edit"
                  THEN BoardDefault(agent, boards, getBoardOptions(boards)[i].value)
                  ELSE getBoardOptions(boards)[i].value
    /\ userSelected' = TRUE
    /\ UNCHANGED <<last, view, authVars, error, envVars, agent, name, boards,
                   heartbeatEvery, heartbeatTarget, identityTemplate,
                   soulTemplate, isLoading, net, triggers, submits, boardsOk,
                   agentOk>>

(* onClick of "Back to agents" / "Back to agent" *)
Back ==
    /\ FormShown
    /\ pushed' = IF view = "new" THEN <<"/agents">> ELSE <<"/agents/", agentId>>
    /\ UNCHANGED <<last, view, authVars, error, mounted, isSignedIn, agentId,
                   formVars, net, histVars>>

---------------------------------------------------------------------------

CanReload  == reloads < MaxReloads
CanTrigger == triggers < MaxTriggers
CanSubmit  == submits < MaxSubmits
CanEdit    == edits < (IF view = "edit" THEN MaxEditsEdit ELSE MaxEdits)

Next ==
    \/ CanEdit /\ \E v \in TokenInputs : SetToken(v)
    \/ CanSubmit /\ LoginHandleSubmit
    \/ CanReload /\ Reload
    \/ \E t \in GetTokenResults : NewMount(t)
    \/ CanTrigger /\ \E t \in GetTokenResults : NewAuthChange(t)
    \/ \E r \in InFlight, o \in BoardsOutcomes(BoardListsCore) : NewBoardsDone(r, o)
    \/ CanSubmit /\ \E t \in GetTokenResults : NewHandleSubmit(t)
    \/ \E r \in InFlight, o \in CreateOutcomes : NewSubmitDone(r, o)
    \/ \E t1, t2 \in GetTokenResults : EditMount(t1, t2)
    \/ CanTrigger /\ \E t1, t2 \in GetTokenResults : EditAuthChange(t1, t2)
    \/ \E r \in InFlight, o \in BoardsOutcomes(BoardListsCore) : EditBoardsDone(r, o)
    \/ \E r \in InFlight, o \in AgentOutcomes(AgentRecordsCore) : EditAgentDone(r, o)
    \/ CanSubmit /\ \E t \in GetTokenResults : EditHandleSubmit(t)
    \/ \E r \in InFlight, o \in UpdateOutcomes : EditSubmitDone(r, o)
    \/ CanEdit /\ \E v \in NameInputs : SetName(v)
    \/ CanEdit /\ \E v \in EveryInputs : SetHeartbeatEvery(v)
    \/ CanEdit /\ \E i \in 1..Len(HEARTBEAT_TARGET_OPTIONS) :
                     SetHeartbeatTarget(HEARTBEAT_TARGET_OPTIONS[i].value)
    \/ CanEdit /\ \E v \in TemplateInputs : SetIdentityTemplate(v)
    \/ CanEdit /\ \E v \in TemplateInputs : SetSoulTemplate(v)
    \/ CanEdit /\ \E i \in 1..Len(boards) : SetBoardId(i)
    \/ Back

Spec == Init /\ [][Next]_vars

---------------------------------------------------------------------------
(* The loading of the two pages on its own: no submit, every board list    *)
(* the server can answer with, agent records that differ in their board,   *)
(* and the load effect run again after each change of the signed-in flag   *)
(* or of the route parameter.                                              *)

AgentRecordsBoards ==
    { r \in AgentRecords :
        /\ r.heartbeat_config = [null |-> FALSE, every |-> <<"30m">>, target |-> "last"]
        /\ r.identity_template = <<" ", "id", " ">>
        /\ r.soul_template = <<"soul">> }

InitLoad == Init /\ view \in {"new", "edit"}

CanLoadTrigger == triggers < MaxLoadTriggers
CanLoadEdit    == edits < MaxLoadEdits

NextLoad ==
    \/ \E t \in GetTokenResults : NewMount(t)
    \/ CanLoadTrigger /\ \E t \in GetTokenResults : NewAuthChange(t)
    \/ \E r \in InFlight, o \in BoardsOutcomes(BoardLists) : NewBoardsDone(r, o)
    \/ \E t1, t2 \in GetTokenResults : EditMount(t1, t2)
    \/ CanLoadTrigger /\ \E t1, t2 \in GetTokenResults : EditAuthChange(t1, t2)
    \/ CanLoadTrigger /\ \E a \in AgentIds, t1, t2 \in GetTokenResults :
                            EditParamsChange(a, t1, t2)
    \/ \E r \in InFlight, o \in BoardsOutcomes(BoardLists) : EditBoardsDone(r, o)
    \/ \E r \in InFlight, o \in AgentOutcomes(AgentRecordsBoards) :
           EditAgentDone(r, o)
    \/ CanLoadEdit /\ \E i \in 1..Len(boards) : SetBoardId(i)

SpecLoad == InitLoad /\ [][NextLoad]_vars

---------------------------------------------------------------------------
(* The seeding of the edit form on its own: agent records that differ in   *)
(* every field the form shows, loaded into a form the user may have typed  *)
(* into after an earlier load.                                             *)

AgentRecordsSeed == { r \in AgentRecords : r.board_id = "b2" }

InitSeed == Init /\ view = "edit" /\ agentId = "a1"

NextSeed ==
    \/ \E t1, t2 \in GetTokenResults : EditMount(t1, t2)
    \/ CanLoadTrigger /\ \E t1, t2 \in GetTokenResults : EditAuthChange(t1, t2)
    \/ \E r \in InFlight, o \in BoardsOutcomes({<<Board("b1"), Board("b2")>>}) :
           EditBoardsDone(r, o)
    \/ \E r \in InFlight, o \in AgentOutcomes(AgentRecordsSeed) : EditAgentDone(r, o)
    \/ CanLoadEdit /\ \E v \in NameInputs : SetName(v)
    \/ CanLoadEdit /\ \E v \in EveryInputs : SetHeartbeatEvery(v)

SpecSeed == InitSeed /\ [][NextSeed]_vars

---------------------------------------------------------------------------
(* Submitting again: a signed-in user on either page who may submit more   *)
(* than once, before or after an earlier request has settled.  Every fetch *)
(* settles in the end, by resolving or by rejecting, and its continuation  *)
(* then runs: the settling steps are weakly fair.                          *)

SessionToken == <<"jwt">>
OneBoardList == {<<Board("b1"), Board("b2")>>}

InitResubmit ==
    /\ Init
    /\ view \in {"new", "edit"}
    /\ isSignedIn
    /\ agentId = (IF view = "edit" THEN "a1" ELSE NullStr)

CanResubmit == submits < MaxResubmits

NewBoardsSettle ==
    \E r \in InFlight, o \in BoardsOutcomes(OneBoardList) : NewBoardsDone(r, o)
NewSubmitSettle ==
    \E r \in InFlight, o \in CreateOutcomes : NewSubmitDone(r, o)
EditBoardsSettle ==
    \E r \in InFlight, o \in BoardsOutcomes(OneBoardList) : EditBoardsDone(r, o)
EditAgentSettle ==
    \E r \in InFlight, o \in AgentOutcomes(AgentRecordsCore) : EditAgentDone(r, o)
EditSubmitSettle ==
    \E r \in InFlight, o \in UpdateOutcomes : EditSubmitDone(r, o)

NextResubmit ==
    \/ NewMount(SessionToken)
    \/ NewBoardsSettle
    \/ CanResubmit /\ NewHandleSubmit(SessionToken)
    \/ NewSubmitSettle
    \/ EditMount(SessionToken, SessionToken)
    \/ EditBoardsSettle
    \/ EditAgentSettle
    \/ CanResubmit /\ EditHandleSubmit(SessionToken)
    \/ EditSubmitSettle
    \/ CanEdit /\ \E v \in NameInputs : SetName(v)

FairSettle ==
    /\ WF_vars(NewBoardsSettle)
    /\ WF_vars(NewSubmitSettle)
    /\ WF_vars(EditBoardsSettle)
    /\ WF_vars(EditAgentSettle)
    /\ WF_vars(EditSubmitSettle)

SpecResubmit == InitResubmit /\ [][NextResubmit]_vars /\ FairSettle

---------------------------------------------------------------------------
(* The edit page as a user drives it: the form is submitted through the    *)
(* submit button, which is disabled while isLoading, and the load effect   *)
(* runs again whenever the signed-in flag or the agent id changes, also    *)
(* while a PATCH is pending.                                               *)

(* A click on "Save changes" *)
ClickSave(tok) ==
    /\ FormShown /\ ~SubmitDisabled
    /\ EditHandleSubmit(tok)

InitRace == Init /\ view = "edit" /\ isSignedIn /\ agentId = "a1"

CanRaceTrigger == triggers < MaxRaceTriggers

NextRace ==
    \/ EditMount(SessionToken, SessionToken)
    \/ CanRaceTrigger /\ EditAuthChange(SessionToken, SessionToken)
    \/ CanRaceTrigger /\ \E a \in AgentIds :
                            EditParamsChange(a, SessionToken, SessionToken)
    \/ EditBoardsSettle
    \/ EditAgentSettle
    \/ CanSubmit /\ ClickSave(SessionToken)
    \/ EditSubmitSettle

SpecRace == InitRace /\ [][NextRace]_vars

---------------------------------------------------------------------------
(* Steps of the handlers, as the properties below recognise them *)

(* A step in which a handleSubmit (of the login view or of a page) ran *)
SubmitStep == submits' = submits + 1

(* A step in which the fetch of a request of kind k settled *)
SettleStep(k) ==
    \E r \in BagToSet(net) : r.kind = k /\ net' = net (-) SetToBag({r})

---------------------------------------------------------------------------
(* C1: in local-auth mode AuthProvider renders the login view exactly     *)
(* when no token is stored, and the children as they are when one is;      *)
(* the children are never rendered while the token is absent.              *)
C1_LoginViewIffNoToken ==
    (view = "auth" /\ localAuthMode) =>
        /\ (storedToken = NullText => rendered = "login")
        /\ (storedToken # NullText => rendered = "children")

C1_Witness ==
    /\ view = "auth" /\ localAuthMode
    /\ submits > 0 /\ storedToken # NullText /\ rendered = "children"

(* C2: a login submit whose input is empty or whitespace-only leaves the  *)
(* token absent, writes nothing to the store, triggers no reload and sets  *)
(* the error to "Bearer token is required.".                               *)
C2_BlankTokenRejected ==
    [][(view = "auth" /\ SubmitStep /\ token \in {<<>>, <<" ">>, <<" ", " ">>})
         => /\ storedToken = NullText /\ storedToken' = NullText
            /\ reloads' = reloads
            /\ rendered' = "login"
            /\ error' = "Bearer token is required."]_vars

C2_Witness ==
    /\ view = "auth" /\ submits > 0
    /\ token = <<" ", " ">>
    /\ error = "Bearer token is required."
    /\ storedToken = NullText /\ reloads = 0

(* C3: a login submit whose input is non-empty after trimming stores      *)
(* exactly the trimmed input, clears the error and reloads the page,       *)
(* whatever the input looks like otherwise.                                *)
C3_TrimmedTokenStored ==
    [][(view = "auth" /\ SubmitStep /\ token \notin {<<>>, <<" ">>, <<" ", " ">>})
         => /\ storedToken' = Trim(token)
            /\ (token = <<" ", "abc123", " ">> => storedToken' = <<"abc123">>)
            /\ (token = <<"a", " ", "b", " ">> => storedToken' = <<"a", " ", "b">>)
            /\ error' = NullStr
            /\ reloads' = reloads + 1]_vars

C3_Witness ==
    /\ view = "auth" /\ submits > 0
    /\ storedToken = <<"a", " ", "b">>
    /\ error = NullStr /\ reloads = 1

(* C4: with local-auth mode off, the children are wrapped in the hosted   *)
(* provider exactly when the publishable key is judged plausible; with an  *)
(* implausible key (missing, empty, malformed) they are rendered unwrapped *)
(* and no error is shown.                                                  *)
C4_WrappedIffPlausibleKey ==
    (view = "auth" /\ ~localAuthMode) =>
        /\ (rendered = "clerk" <=> IsLikelyValidClerkPublishableKey(publishableKey))
        /\ (publishableKey \in {NullStr, "", "not-a-key"} => rendered = "children")
        /\ error = NullStr

C4_Witness ==
    /\ view = "auth" /\ ~localAuthMode
    /\ publishableKey = "" /\ rendered = "children" /\ reloads > 0

(* C5: a create submit that passes validation issues exactly one POST     *)
(* whose body holds the trimmed name, the selected board and               *)
(* heartbeat_config.every equal to the trimmed interval, or "10m" when the *)
(* interval is blank.                                                      *)
C5_CreatePostsOnce ==
    [][(view = "new" /\ SubmitStep /\ isSignedIn
        /\ Trim(name) # <<>> /\ boardId # "")
         => \E r \in BagToSet(net') :
              /\ net' = net (+) SetToBag({r})
              /\ r.kind = "create"
              /\ r.body.name = Trim(name)
              /\ (name = <<" ", "Deploy", " ", "bot", " ">>
                    => r.body.name = <<"Deploy", " ", "bot">>)
              /\ r.body.board_id = boardId
              /\ r.body.heartbeat_config.every =
                    (IF heartbeatEvery \in {<<>>, <<" ">>} THEN <<"10m">>
                     ELSE Trim(heartbeatEvery))]_vars

C5_Witness ==
    /\ view = "new" /\ heartbeatEvery = <<" ">>
    /\ \E r \in InFlight :
         /\ r.kind = "create"
         /\ r.body.name = <<"Deploy", " ", "bot">>
         /\ r.body.board_id = "b1"
         /\ r.body.heartbeat_config.every = <<"10m">>

(* C6: in both views a submit whose name is empty after trimming, or with *)
(* no board selected, issues no request; the handler, once past its        *)
(* signed-in guard, sets the validation message of the failing field.      *)
ValidationMessage ==
    IF Trim(name) = <<>> THEN "Agent name is required."
    ELSE IF view = "new" THEN "Select a board before creating an agent."
    ELSE "Select a board before saving."

PastGuard == isSignedIn /\ (view = "edit" => agentId \notin {NullStr, ""})

C6_InvalidSubmitSendsNothing ==
    [][(view \in {"new", "edit"} /\ SubmitStep
        /\ (Trim(name) = <<>> \/ boardId = ""))
         => /\ net' = net
            /\ pushed' = pushed
            /\ (PastGuard => error' = ValidationMessage)]_vars

C6_Witness ==
    /\ view = "edit" /\ submits > 0
    /\ name # <<>> /\ boardId = ""
    /\ error = "Select a board before saving."
    /\ \A r \in InFlight : r.kind # "update"

---------------------------------------------------------------------------
(* What a submit shows when the server answers with a response that is    *)
(* not ok                                                                  *)
GenericSubmitError ==
    IF view = "new" THEN "Unable to create agent." ELSE "Unable to update agent."

(* How a request settled when its response was OK, whether or not the     *)
(* body parsed                                                             *)
OkResponse == {"ok", "badBody"}

SubmitSettles == SettleStep("create") \/ SettleStep("update")

(* C7 as the specification states it: a create or update submit navigates *)
(* only when the response is OK, and on a fetch rejection as on a non-OK   *)
(* response it stays on the page and shows the same generic message.       *)
C7_SameMessageForEveryFailure ==
    [][SubmitSettles =>
         /\ (pushed' # pushed => last'.how \in OkResponse)
         /\ (last'.how \in {"rejected", "notOk"} =>
                pushed' = pushed /\ error' = GenericSubmitError)]_vars

(* C7, amended: a create or update submit navigates only when the         *)
(* response is OK; on a non-OK response, 4xx and 5xx alike, it stays on    *)
(* the page and shows the generic message of the view; on a fetch          *)
(* rejection it stays on the page and shows the message of the rejection,  *)
(* "Failed to fetch" for a network failure.                                *)
C7_NavigatesOnlyOnOk ==
    [][SubmitSettles =>
         /\ (pushed' # pushed => last'.how \in OkResponse)
         /\ (last'.how = "notOk" =>
                pushed' = pushed /\ error' = GenericSubmitError)
         /\ (last'.how = "rejected" =>
                pushed' = pushed /\ error' = "Failed to fetch")
         /\ isLoading' = FALSE]_vars

C7_Witness ==
    /\ view = "new" /\ submits > 0
    /\ last = [kind |-> "create", how |-> "rejected"]
    /\ error = "Failed to fetch"
    /\ pushed = NoPush

---------------------------------------------------------------------------
(* C8 as the specification states it: every request in flight carries an  *)
(* Authorization header "Bearer <token>" with a non-empty token.           *)
C8_EveryRequestHasBearer ==
    \A r \in InFlight :
        /\ Len(r.auth) > 2
        /\ SubSeq(r.auth, 1, 2) = <<"Bearer", " ">>

(* C8, amended: every request of the two views carries the Authorization  *)
(* header "Bearer <token>" when getToken() resolved to a non-empty token,  *)
(* and an empty Authorization header when it resolved to null or to the    *)
(* empty string: the request is sent either way.                           *)
C8_BearerWhenTokenElseEmpty ==
    \A r \in InFlight :
        /\ r.kind \in {"boards", "agent", "create", "update"}
        /\ (r.tok = <<"jwt">> => r.auth = <<"Bearer", " ", "jwt">>)
        /\ (r.tok \in {NullText, <<>>} => r.auth = <<>>)
        /\ (r.auth # <<>> =>
              Len(r.auth) > 2 /\ SubSeq(r.auth, 1, 2) = <<"Bearer", " ">>)

C8_Witness ==
    /\ view = "edit"
    /\ \E r \in InFlight : r.kind = "update" /\ r.auth = <<"Bearer", " ", "jwt">>
    /\ \E r \in InFlight : r.kind = "boards" /\ r.auth = <<>>

---------------------------------------------------------------------------
(* The board the specification expects to be selected: the agent's board  *)
(* when it has one, otherwise the first board of the list, otherwise none. *)
ExpectedBoard ==
    IF view = "edit" /\ agent # NoAgent /\ agent.board_id \notin {NullStr, ""}
    THEN agent.board_id
    ELSE IF boards # <<>> THEN boards[1].id
    ELSE ""

---------------------------------------------------------------------------
(* A step in which loadAgent stored a fetched record *)
AgentLoaded == agentOk' = agentOk + 1

Blank(s) == s \in {NullText, <<>>, <<" ">>}

(* C10 as the specification states it: after a successful agent load      *)
(* every field equals the value of the record, and a template that is      *)
(* null, empty or whitespace-only in the record is the built-in default.   *)
C10_SeededWithServerValues ==
    [][AgentLoaded =>
         /\ name' = agent'.name
         /\ (~Blank(agent'.identity_template) =>
                identityTemplate' = agent'.identity_template)
         /\ (Blank(agent'.identity_template) =>
                identityTemplate' = DEFAULT_IDENTITY_TEMPLATE)
         /\ (~Blank(agent'.soul_template) =>
                soulTemplate' = agent'.soul_template)
         /\ (Blank(agent'.soul_template) =>
                soulTemplate' = DEFAULT_SOUL_TEMPLATE)]_vars

(* C10, amended: after a successful agent load in the edit view the name  *)
(* equals the server name, the heartbeat interval and target equal the     *)
(* server values when those are non-empty (a target of "last" selects      *)
(* "Last channel") and are left as they were otherwise, and the identity   *)
(* and soul templates equal the server values with surrounding whitespace  *)
(* removed, or the built-in defaults when the server value is null, empty  *)
(* or whitespace-only.                                                     *)
C10_SeededWithTrimmedServerValues ==
    [][AgentLoaded =>
         LET cfg == agent'.heartbeat_config IN
         /\ name' = agent'.name
         /\ IF ~cfg.null /\ cfg.every \notin {NullText, <<>>}
            THEN heartbeatEvery' = cfg.every
            ELSE heartbeatEvery' = heartbeatEvery
         /\ IF ~cfg.null /\ cfg.target \notin {NullStr, ""}
            THEN heartbeatTarget' = cfg.target
            ELSE heartbeatTarget' = heartbeatTarget
         /\ ((~cfg.null /\ cfg.target = "last") =>
                \E i \in 1..Len(HEARTBEAT_TARGET_OPTIONS) :
                    /\ HEARTBEAT_TARGET_OPTIONS[i].value = heartbeatTarget'
                    /\ HEARTBEAT_TARGET_OPTIONS[i].label = "Last channel")
         /\ (~Blank(agent'.identity_template) =>
                identityTemplate' = Trim(agent'.identity_template))
         /\ (agent'.identity_template = <<" ", "id", " ">> =>
                identityTemplate' = <<"id">>)
         /\ (Blank(agent'.identity_template) =>
                identityTemplate' = DEFAULT_IDENTITY_TEMPLATE)
         /\ (~Blank(agent'.soul_template) =>
                soulTemplate' = Trim(agent'.soul_template))
         /\ (Blank(agent'.soul_template) =>
                soulTemplate' = DEFAULT_SOUL_TEMPLATE)]_vars

C10_Witness ==
    /\ view = "edit" /\ agentOk > 0 /\ last = [kind |-> "agent", how |-> "ok"]
    /\ agent.identity_template = <<" ", "id", " ">>
    /\ identityTemplate = <<"id">>
    /\ agent.soul_template = <<>> /\ soulTemplate = DEFAULT_SOUL_TEMPLATE
    /\ agent.heartbeat_config.target = "last" /\ heartbeatTarget = "last"
    /\ name = agent.name

---------------------------------------------------------------------------
(* A step in which a request settled as a failure, or has done so before *)
Failed == last.how \in {"rejected", "notOk", "badBody"}

ValidFields == Trim(name) # <<>> /\ boardId # ""

(* C11: every failure path leaves the create and the edit view            *)
(* interactive and re-submittable: while the page is shown, isLoading      *)
(* always returns to false (every fetch settling in the end), and a submit *)
(* with valid fields made after a failure issues one fresh request and     *)
(* clears the error.                                                       *)
C11_FailureLeavesViewUsable ==
    /\ ((isLoading /\ pushed = NoPush) ~> (~isLoading \/ pushed # NoPush))
    /\ [][(view \in {"new", "edit"} /\ SubmitStep /\ Failed
            /\ PastGuard /\ ValidFields)
           => /\ \E r \in BagToSet(net') :
                    /\ net' = net (+) SetToBag({r})
                    /\ r.kind = (IF view = "new" THEN "create" ELSE "update")
              /\ error' = NullStr]_vars

C11_Witness ==
    /\ view = "new" /\ submits = 2
    /\ last = [kind |-> "create", how |-> "notOk"]
    /\ isLoading /\ error = NullStr
    /\ \E r \in InFlight : r.kind = "create"

---------------------------------------------------------------------------
(* Values the token store can hold in another run *)
StoredValues == {NullText, <<>>, <<"abc123">>, <<"a", " ", "b">>}

(* C12: what AuthProvider renders is a function of the local-auth flag,   *)
(* of whether the key is plausible and of whether a token is stored: a run *)
(* with any other key and stored token that agrees on these three renders  *)
(* the same; in local-auth mode the key does not matter, and outside it    *)
(* the stored token does not matter.                                       *)
C12_OutcomeDependsOnThreeInputs ==
    view = "auth" =>
        /\ \A k \in KeyValues, st \in StoredValues :
              (/\ IsLikelyValidClerkPublishableKey(k)
                      = IsLikelyValidClerkPublishableKey(publishableKey)
               /\ (st \in {NullText, <<>>}) = (storedToken \in {NullText, <<>>}))
                 => AuthProvider(localAuthMode, k, st) = rendered
        /\ (localAuthMode =>
              \A k \in KeyValues : AuthProvider(TRUE, k, storedToken) = rendered)
        /\ (~localAuthMode =>
              \A st \in StoredValues :
                  AuthProvider(FALSE, publishableKey, st) = rendered)

C12_Witness ==
    /\ view = "auth" /\ localAuthMode /\ reloads > 0
    /\ publishableKey = "pk_live_Y2xlcms"
    /\ storedToken = <<"abc123">> /\ rendered = "children"

---------------------------------------------------------------------------
(* C13: in every reachable state the stored token is absent or a          *)
(* non-empty string equal to its own trim, and once a token is stored no   *)
(* step of the login view or of AuthProvider removes it or replaces it     *)
(* with an empty value.                                                    *)
C13_StoredTokenWellFormed ==
    /\ [](storedToken = NullText
            \/ (storedToken # <<>> /\ Trim(storedToken) = storedToken))
    /\ [][storedToken # NullText =>
             (storedToken' # NullText /\ storedToken' # <<>>)]_vars

C13_Witness ==
    /\ view = "auth" /\ localAuthMode
    /\ submits > 0 /\ reloads = 2 /\ edits > 0
    /\ storedToken = <<"abc123">>

---------------------------------------------------------------------------
(* A step in which the load effect ran: after the first render, or after a *)
(* change of the signed-in flag or of the agent id                         *)
LoadTrigger == (mounted' /\ ~mounted) \/ triggers' = triggers + 1

(* The requests of which a step put a new copy on the network *)
Added == { r \in BagToSet(net') : CopiesIn(r, net') > CopiesIn(r, net) }

(* Whether the step that added request r is the one the code issues it in *)
IssuedByItsTrigger(r) ==
    \/ (r.kind \in {"create", "update"} /\ SubmitStep)
    \/ (r.kind \in {"boards", "agent"} /\ LoadTrigger)

(* C14: nothing is retried: a create or update request is issued only by  *)
(* a submit, a boards or agent request only by a run of the load effect,   *)
(* and every other step, a failed request settling included, leaves the    *)
(* network with no request it did not hold before.                         *)
C14_NoAutomaticRetry ==
    [][(\A r \in Added : IssuedByItsTrigger(r))
       /\ ((~SubmitStep /\ ~LoadTrigger) => (net' \sqsubseteq net))]_vars

C14_Witness ==
    /\ view = "edit" /\ mounted /\ pushed = NoPush
    /\ submits = 1 /\ last = [kind |-> "update", how |-> "rejected"]
    /\ error = "Failed to fetch"
    /\ \A r \in InFlight : r.kind # "update"

---------------------------------------------------------------------------
(* C15: handleSubmit does not test isLoading: a submit event that reaches *)
(* the handler with valid fields while the submit control is disabled,     *)
(* a request still in flight, issues one more request of its own; only the *)
(* disabled control stands between a second submit and a second request.   *)
C15_SubmitWhileLoadingSendsAgain ==
    [][(view \in {"new", "edit"} /\ SubmitStep /\ SubmitDisabled
        /\ PastGuard /\ ValidFields)
         => /\ BagCardinality(net') = BagCardinality(net) + 1
            /\ \E r \in Added :
                  r.kind = (IF view = "new" THEN "create" ELSE "update")
            /\ isLoading']_vars

C15_Witness ==
    /\ view = "new" /\ submits = 2 /\ isLoading
    /\ \E r \in InFlight : r.kind = "create" /\ CopiesIn(r, net) = 2

---------------------------------------------------------------------------
(* A step in which loadBoards stored a fetched list *)
BoardsLoaded == boardsOk' = boardsOk + 1

(* The options the board selector shows for the server's two boards *)
TwoBoardOptions ==
    << [value |-> "b1", label |-> <<"Board", " ", "b1">>],
       [value |-> "b2", label |-> <<"Board", " ", "b2">>] >>

(* C16: in the edit view one run of the load effect starts the boards     *)
(* fetch and the agent fetch together and they complete in either order;   *)
(* the board selector has no option until a boards fetch has succeeded,    *)
(* the agent fetch completing first changes neither the option list nor    *)
(* the error message, and a boards fetch that succeeds populates the       *)
(* options with the boards returned.                                       *)
C16_BoardsEmptyUntilLoaded ==
    /\ []((view = "edit" /\ boardsOk = 0) => getBoardOptions(boards) = <<>>)
    /\ [][view = "edit" =>
            /\ ((mounted' /\ ~mounted /\ isSignedIn /\ agentId = "a1") =>
                   /\ \E r \in Added : r.kind = "boards"
                   /\ \E r \in Added : r.kind = "agent")
            /\ ((AgentLoaded /\ boardsOk = 0) =>
                   /\ getBoardOptions(boards') = <<>>
                   /\ error' = error)
            /\ (BoardsLoaded => getBoardOptions(boards') = TwoBoardOptions)]_vars

C16_Witness ==
    /\ view = "edit" /\ agentOk = 1 /\ boardsOk = 0
    /\ last = [kind |-> "agent", how |-> "ok"]
    /\ getBoardOptions(boards) = <<>>
    /\ error = NullStr /\ ~isLoading
    /\ \E r \in InFlight : r.kind = "boards"

---------------------------------------------------------------------------
(* C17: in the edit view isLoading is true in every state in which a      *)
(* PATCH request is in flight, also when an agent load started again by a  *)
(* change of the signed-in flag or of the agent id starts or finishes      *)
(* while the PATCH is pending.                                             *)
C17_LoadingWhilePatchInFlight ==
    (view = "edit" /\ pushed = NoPush /\ \E r \in InFlight : r.kind = "update")
        => isLoading

---------------------------------------------------------------------------
(* C18: in local-auth mode with no token stored, a login submit whose     *)
(* input is not blank stores the token before the page is loaded again,    *)
(* so the render after the reload shows the children; and once a token is  *)
(* stored no later render or login submit shows the login view again.      *)
C18_AcceptedTokenEndsLogin ==
    /\ [][(view = "auth" /\ localAuthMode /\ storedToken = NullText
            /\ SubmitStep /\ Truthy(Trim(token)))
          => (storedToken' = Trim(token) /\ reloads' = reloads + 1
              /\ rendered' = "children")]_vars
    /\ [][(view = "auth" /\ localAuthMode /\ storedToken # NullText)
          => (storedToken' # NullText /\ rendered' = "children")]_vars

C18_Witness ==
    /\ view = "auth" /\ localAuthMode
    /\ submits > 0 /\ reloads = 2
    /\ storedToken = <<"a", " ", "b">> /\ rendered = "children"

---------------------------------------------------------------------------
(* A step in which a load effect or a submit handler of a page ran *)
HandlerStep == view \in {"new", "edit"} /\ (SubmitStep \/ LoadTrigger)

(* The agent id the handlers of the step read is missing *)
AgentIdMissing == view = "edit" /\ agentId' \in {NullStr, ""}

(* C19: while the user is not signed in, or in the edit view while the    *)
(* agent id is missing, a run of the load effect or of the submit handler  *)
(* issues no request and leaves error, isLoading, the board list and       *)
(* every form field unchanged.                                             *)
C19_GuardedHandlersDoNothing ==
    [][(HandlerStep /\ (~isSignedIn' \/ AgentIdMissing))
         => (net' = net /\ UNCHANGED <<error, formVars>>)]_vars

(* C19 as the code has it: not signed in, no handler issues a request or  *)
(* changes state; signed in with the agent id missing, loadAgent and       *)
(* handleSubmit do nothing, while loadBoards, which tests the signed-in    *)
(* flag only, still sends its one GET of the board list, changing no state *)
(* in that step.                                                           *)
C19_GuardedHandlersDoNothingButLoadBoards ==
    [][HandlerStep =>
         /\ ~isSignedIn' => (net' = net /\ UNCHANGED <<error, formVars>>)
         /\ (isSignedIn' /\ AgentIdMissing) =>
               /\ UNCHANGED <<error, formVars>>
               /\ SubmitStep => net' = net
               /\ LoadTrigger =>
                     /\ BagCardinality(net') = BagCardinality(net) + 1
                     /\ \A r \in Added : r.kind = "boards"]_vars

C19_Witness ==
    /\ view = "edit" /\ mounted /\ isSignedIn /\ agentId = NullStr
    /\ submits > 0 /\ pushed = NoPush
    /\ error = NullStr /\ ~isLoading /\ agent = NoAgent
    /\ BagCardinality(net) = 1
    /\ \A r \in InFlight : r.kind = "boards"

---------------------------------------------------------------------------
(* C20: a create or edit submit that gets past the handler's guard and    *)
(* fails validation changes the error message and nothing else: isLoading, *)
(* the board list, the selected board and every form field keep their      *)
(* values, no request is issued, and the error becomes the validation      *)
(* message whatever message was shown before.                              *)
C20_InvalidSubmitChangesOnlyError ==
    [][(view \in {"new", "edit"} /\ SubmitStep /\ PastGuard /\ ~ValidFields)
         => /\ UNCHANGED <<formVars, net, envVars>>
            /\ error' = ValidationMessage
            /\ error' \in {"Agent name is required.",
                           "Select a board before creating an agent.",
                           "Select a board before saving."}]_vars

C20_Witness ==
    /\ view = "new" /\ isSignedIn /\ submits > 0 /\ triggers = 0
    /\ last = [kind |-> "boards", how |-> "notOk"]
    /\ net = EmptyBag
    /\ error = "Agent name is required."
    /\ ~isLoading /\ boards = <<>> /\ boardId = ""

====
